---- MODULE Spec2Model ----
(***************************************************************************)
(* A model of the chatbot pipeline of src/: the summary cache of           *)
(* core/summarizer.py, the generation client of core/llm.py and the        *)
(* orchestrator of main.py with the conversation history of                *)
(* core/conversation_manager.py.                                           *)
(*                                                                         *)
(* The program runs on one asyncio event loop: a coroutine runs without    *)
(* interruption from one await to the next, so every action below is the   *)
(* code between two suspension points of one call.                         *)
(*                                                                         *)
(* Seven specifications share the variables; each leaves the variables of  *)
(* the other components at their values after construction:                *)
(*   SpecSummary  ConversationSummarizer.get_summary and its cache         *)
(*   SpecLLM      LLMManager.initialize / close / generate_response        *)
(*   SpecStream   generate_response on one answered request                *)
(*   SpecBot      EnhancedChatbot initialize / close / process_message     *)
(*   SpecSession  AsyncSessionManager._get_session / close                 *)
(*   SpecContext  get_context and the prompt on given histories            *)
(*   SpecHistory  ConversationManager.add_message under concurrent callers *)
(***************************************************************************)
EXTENDS Integers, Sequences, FiniteSets, TLC

(***************************************************************************)
(* Bounds of the model.                                                    *)
(***************************************************************************)
\* message sequences handed to get_summary are numbered 1..MaxMessages
MaxMessages == 3
\* Settings.MAX_CACHE_ITEMS is drawn from 1..MaxCacheItemsSetting
MaxCacheItemsSetting == 2
\* Settings.CACHE_CLEANUP_THRESHOLD is drawn from 0..MaxThresholdSetting
MaxThresholdSetting == 2

\* aiohttp sessions are numbered 1..MaxSessions in the order of their creation
MaxSessions == 2
\* a streamed response body has at most MaxLines lines
MaxLines == 3
\* ... and at most MaxLinesInFlight lines where several calls are interleaved
MaxLinesInFlight == 1
\* MaxCalls process_message calls are made in one behaviour, numbered in the
\* order in which they are made
MaxCalls == 2
\* the longest stored history get_context is applied to
MaxTurns == 4
\* add_message is called MaxAdds times in one behaviour
MaxAdds == 3

None == "None"
\* self.session = NoSession
NoSession == 0

(***************************************************************************)
(* Summarizer: constants of the model                                      *)
(***************************************************************************)
\* the callers of get_summary
SummaryTasks == {"s1", "s2"}
MessageSeqs == 1..MaxMessages
\* texts the remote summarization can answer with
SummaryTexts == {"summary A", "summary B"}
\* the fallback string of _generate_summary
SUMMARY_FALLBACK == "Error generating conversation summary."
\* how the remote call of _generate_summary can end
SummaryOutcomes ==
    [kind : {"ok"}, content : SummaryTexts]
        \cup [kind : {"http_error", "transport_error", "bad_body"}, content : {None}]

VARIABLES
    \* Settings (config/settings.py), fixed at construction, not validated
    MAX_CACHE_ITEMS,
    CACHE_CLEANUP_THRESHOLD,
    \* ConversationSummarizer
    _summary_cache,     \* dict: cache key -> summary
    _summary_lock,      \* asyncio.Lock: the task holding it, or None
    sum_pc,             \* per caller: "idle", "waiting", "generating", "done"
    sum_messages,       \* per caller: the argument of its get_summary call
    sum_ret,            \* per caller: the value its call returned
    sum_generated,      \* per caller: _generate_summary invocations of its call
    sum_outcome,        \* per caller: how the remote call of its call ended, or None
    sum_wrote,          \* per caller: the <<key, value>> its call assigned at line 33, or <<>>
    sum_peers           \* per caller: same-key calls in flight when it was called

(***************************************************************************)
(* Generation client: constants of the model                               *)
(***************************************************************************)
\* the coroutines that call into the LLMManager
LLMTasks == {"a", "b", "c"}
SessionIds == 1..MaxSessions
\* a text is the sequence of its characters, so that texts concatenate
Contents == {<<"x">>, <<"y">>}
\* the fixed string of llm.py:93 and main.py:138, a text no stream produces
APOLOGY == <<"I apologize, but I encountered an error processing your request.">>
\* the lines a response body can hold:
\*   delta       {"choices": [{"delta": {"content": <content>}}]}
\*   no_delta    a JSON object without choices, without delta or with an
\*               absent or empty content
\*   not_json    bytes json.loads rejects with JSONDecodeError
\*   no_choice   valid JSON of another shape: {"choices": []}, [], null, 1
StreamLines ==
    [kind : {"delta"}, content : Contents]
        \cup [kind : {"no_delta", "not_json", "no_choice"}, content : {<<>>}]
RECURSIVE SeqsUpTo(_, _)
SeqsUpTo(S, n) ==
    IF n = 0 THEN {<<>>}
    ELSE SeqsUpTo(S, n - 1)
            \cup {Append(q, x) : q \in {r \in SeqsUpTo(S, n - 1) : Len(r) = n - 1}, x \in S}
Streams == SeqsUpTo(StreamLines, MaxLines)
\* what session.post can come back with
ResponsesOf(streams) ==
    [kind : {"transport_error", "status_error"}, lines : {<<>>}]
        \cup [kind : {"ok"}, lines : streams]
Responses == ResponsesOf(Streams)
ResponsesInFlight == ResponsesOf(SeqsUpTo(StreamLines, MaxLinesInFlight))

VARIABLES
    \* LLMManager (core/llm.py)
    session,            \* self.session: a session id, or NoSession
    _initialized,       \* self._initialized
    session_state,      \* per session id: "absent" (not created), "open", "closed"
    llm_pc,             \* per task: "idle", "init_lock", "closing", "posting", "done"
    llm_op,             \* per task: the method it is in, or None
    llm_sess,           \* per task: the session its pending await is on, or NoSession
    llm_posted,         \* per task: the session its call posted a request on, or NoSession
    llm_ret             \* per task: how its call ended, or NoResult

VARIABLES
    \* one answered request of generate_response, taken alone
    stream_response,    \* the response session.post came back with
    stream_ret          \* what generate_response made of it, or NoResult

streamVars == <<stream_response, stream_ret>>

(***************************************************************************)
(* Orchestrator: constants of the model                                    *)
(***************************************************************************)
\* the process_message calls
BotTasks == 1..MaxCalls
Users == {"u1", "u2"}
\* who may make a call. A user id is only ever a dictionary key, so the users
\* are interchangeable and the first call is taken to be u1's.
Callers(t) == IF t = 1 THEN {"u1"} ELSE Users
\* the message of a call: the calls send different messages
MessageOf(t) == <<"message", t>>
\* what the endpoint answers a process_message call with
BotResponses == ResponsesOf({<<[kind |-> "delta", content |-> <<"x">>]>>})
\* ConversationManager.add_message keeps the last HISTORY_LIMIT turns
HISTORY_LIMIT == 100
\* the object in self.vector_store: the VectorStore of core/vector_store.py,
\* which defines initialize() only, or a stand-in that has the
\* similarity_search of spec section 4.3
VectorStoreObjects == {"VectorStore", "RetrievalClient"}
\* what similarity_search yields: passages (their texts), or an exception
SearchOutcomes ==
    [kind : {"return"}, value : {<<>>, <<"passage">>}]
        \cup [kind : {"raise"}, value : {<<"Exception">>}]

VARIABLES
    \* EnhancedChatbot (main.py) and its ConversationManager
    chatbot_initialized,    \* EnhancedChatbot._initialized
    vector_store,           \* the kind of object in self.vector_store
    _history,               \* ConversationManager._history: user -> turns
    life_pc,                \* the initialize()/close() caller: "idle", "closing"
    life_op,                \* the method it is in, or None
    life_ret,               \* how its last call ended
    bot_pc,                 \* per task: "idle", "gathering", "generating", "done"
    bot_user,               \* per task: user_id
    bot_message,            \* per task: message
    bot_context,            \* per task: what get_context returned
    bot_search,             \* per task: what similarity_search returned
    bot_prompt,             \* per task: the messages given to generate_response
    bot_answer,             \* per task: the kind of response the endpoint gave
    bot_generated,          \* per task: how generate_response ended
    bot_saved,              \* per task: "ok" or "failed" once add_message ran
    bot_calls,              \* per task and collaborator: "none", "started", "returned", "raised"
    bot_ret                 \* per task: how process_message ended

botVars ==
    <<chatbot_initialized, vector_store, _history, life_pc, life_op, life_ret,
      bot_pc, bot_user, bot_message, bot_context, bot_search, bot_prompt, bot_answer,
      bot_generated, bot_saved, bot_calls, bot_ret>>

llmVars ==
    <<session, _initialized, session_state, llm_pc, llm_op, llm_sess, llm_posted, llm_ret>>

summaryVars ==
    <<MAX_CACHE_ITEMS, CACHE_CLEANUP_THRESHOLD, _summary_cache, _summary_lock,
      sum_pc, sum_messages, sum_ret, sum_generated, sum_outcome, sum_wrote, sum_peers>>

(***************************************************************************)
(* AsyncSessionManager (utils/async_utils.py)                              *)
(***************************************************************************)
\* the tasks that use the manager
SessionTasks == {"p", "q", "r"}

VARIABLES
    _session,           \* self._session: a session id, or NoSession
    sm_state,           \* per session id: "absent" (not created), "open", "closed"
    sm_pc,              \* per task: "idle", "in_body", "closing", "done"
    sm_op,              \* per task: "use" (async with _get_session()), "close", or None
    sm_sess,            \* per task: the session it was yielded or is closing, or NoSession
    sm_ret              \* per task: how its call ended, or NoResult

sessionVars == <<_session, sm_state, sm_pc, sm_op, sm_sess, sm_ret>>

(***************************************************************************)
(* get_context and the prompt, taken alone                                 *)
(***************************************************************************)
VARIABLES
    ctx_history,        \* the turns stored for the user
    ctx_search,         \* the passages similarity_search returned
    ctx_message,        \* the new message
    ctx_ret,            \* what get_context returned, or NoResult
    ctx_prompt          \* the messages built from it, or <<>>

contextVars == <<ctx_history, ctx_search, ctx_message, ctx_ret, ctx_prompt>>

(***************************************************************************)
(* ConversationManager.add_message under concurrent callers                *)
(***************************************************************************)
\* the add_message calls
AddTasks == 1..MaxAdds

VARIABLES
    mgr_history,        \* ConversationManager._history: user -> turns
    mgr_stored,         \* per user: the turns add_message stored, in the order it ran
    add_pc,             \* per call: "idle", "pending" (awaited, not yet run), "done"
    add_user            \* per call: user_id

historyVars == <<mgr_history, mgr_stored, add_pc, add_user>>

vars == <<summaryVars, llmVars, streamVars, botVars, sessionVars, contextVars, historyVars>>

(***************************************************************************)
(* core/summarizer.py                                                      *)
(***************************************************************************)
\* hash(str(messages)): a deterministic, injective fingerprint whose order is
\* unrelated to the order in which the sequences are summarized
_get_cache_key(messages) == (MaxMessages + 1) - messages

Min(S) == CHOOSE x \in S : \A y \in S : x <= y

RECURSIVE sorted(_)
\* sorted(keys): the keys in ascending order
sorted(S) == IF S = {} THEN <<>> ELSE <<Min(S)>> \o sorted(S \ {Min(S)})

\* seq[:-n] of Python: for n = 0 this is seq[:0], the empty list
SliceUntilMinus(seq, n) ==
    IF n = 0 THEN <<>>
    ELSE IF Len(seq) - n <= 0 THEN <<>>
    ELSE SubSeq(seq, 1, Len(seq) - n)

Range(seq) == {seq[i] : i \in 1..Len(seq)}

\* self._summary_cache[key] = summary
CacheStore(cache, key, summary) ==
    [k \in DOMAIN cache \cup {key} |-> IF k = key THEN summary ELSE cache[k]]

\* _update_cache leaving the fallback string out of the cache
_update_cache_skips_fallback(cache, key, summary, maxItems, threshold) ==
    LET stored == CacheStore(cache, key, summary)
    IN  IF summary = SUMMARY_FALLBACK THEN cache
        ELSE IF Cardinality(DOMAIN stored) > maxItems
        THEN LET oldest_keys == Range(SliceUntilMinus(sorted(DOMAIN stored), threshold))
             IN  [k \in DOMAIN stored \ oldest_keys |-> stored[k]]
        ELSE stored

\* _update_cache cleaning up at len(cache) >= MAX_CACHE_ITEMS already
_update_cache_cleans_early(cache, key, summary, maxItems, threshold) ==
    LET stored == CacheStore(cache, key, summary)
    IN  IF Cardinality(DOMAIN stored) >= maxItems
        THEN LET oldest_keys == Range(SliceUntilMinus(sorted(DOMAIN stored), threshold))
             IN  [k \in DOMAIN stored \ oldest_keys |-> stored[k]]
        ELSE stored

\* _update_cache: the cache after the assignment and the cleanup
_update_cache(cache, key, summary, maxItems, threshold) ==
    LET stored == CacheStore(cache, key, summary)
    IN  IF Cardinality(DOMAIN stored) > maxItems
        THEN LET oldest_keys == Range(SliceUntilMinus(sorted(DOMAIN stored), threshold))
             IN  [k \in DOMAIN stored \ oldest_keys |-> stored[k]]
        ELSE stored

\* _generate_summary without the handler of lines 74-76: a failed remote call
\* ends it without a value
_generate_summary_without_handler(outcome) ==
    IF outcome.kind = "ok" THEN outcome.content ELSE None

\* _generate_summary: the content of a successful answer, the fallback otherwise
_generate_summary(outcome) ==
    IF outcome.kind = "ok" THEN outcome.content ELSE SUMMARY_FALLBACK

InFlight(t) == sum_pc[t] \in {"waiting", "generating"}

\* a caller calls get_summary(messages): line 15, then it waits for the lock
get_summary_call(t, messages) ==
    /\ sum_pc[t] = "idle"
    /\ sum_pc' = [sum_pc EXCEPT ![t] = "waiting"]
    /\ sum_messages' = [sum_messages EXCEPT ![t] = messages]
    /\ sum_peers' = [sum_peers EXCEPT ![t] =
            {u \in SummaryTasks \ {t} : InFlight(u) /\ sum_messages[u] = messages}]
    /\ sum_ret' = [sum_ret EXCEPT ![t] = None]
    /\ sum_generated' = [sum_generated EXCEPT ![t] = 0]
    /\ sum_outcome' = [sum_outcome EXCEPT ![t] = None]
    /\ sum_wrote' = [sum_wrote EXCEPT ![t] = <<>>]
    /\ UNCHANGED <<MAX_CACHE_ITEMS, CACHE_CLEANUP_THRESHOLD, _summary_cache, _summary_lock>>
    /\ UNCHANGED <<llmVars, streamVars, botVars, sessionVars, contextVars, historyVars>>

\* lines 17-20: the lock is taken, the key is cached, the value is returned
get_summary_hit(t) ==
    /\ sum_pc[t] = "waiting"
    /\ _summary_lock = None
    /\ _get_cache_key(sum_messages[t]) \in DOMAIN _summary_cache
    /\ sum_ret' = [sum_ret EXCEPT ![t] = _summary_cache[_get_cache_key(sum_messages[t])]]
    /\ sum_pc' = [sum_pc EXCEPT ![t] = "done"]
    /\ UNCHANGED <<MAX_CACHE_ITEMS, CACHE_CLEANUP_THRESHOLD, _summary_cache, _summary_lock,
                   sum_messages, sum_generated, sum_outcome, sum_wrote, sum_peers>>
    /\ UNCHANGED <<llmVars, streamVars, botVars, sessionVars, contextVars, historyVars>>

\* lines 17-23: the lock is taken, the key is absent, _generate_summary is awaited
get_summary_miss(t) ==
    /\ sum_pc[t] = "waiting"
    /\ _summary_lock = None
    /\ _get_cache_key(sum_messages[t]) \notin DOMAIN _summary_cache
    /\ _summary_lock' = t
    /\ sum_generated' = [sum_generated EXCEPT ![t] = @ + 1]
    /\ sum_pc' = [sum_pc EXCEPT ![t] = "generating"]
    /\ UNCHANGED <<MAX_CACHE_ITEMS, CACHE_CLEANUP_THRESHOLD, _summary_cache,
                   sum_messages, sum_ret, sum_outcome, sum_wrote, sum_peers>>
    /\ UNCHANGED <<llmVars, streamVars, botVars, sessionVars, contextVars, historyVars>>

\* lines 23-25: _generate_summary returns, the cache is updated, the lock released
get_summary_generated(t, outcome) ==
    /\ sum_pc[t] = "generating"
    /\ _summary_lock = t
    /\ LET key == _get_cache_key(sum_messages[t])
           summary == _generate_summary(outcome)
       IN  /\ _summary_cache' = _update_cache(_summary_cache, key, summary,
                                              MAX_CACHE_ITEMS, CACHE_CLEANUP_THRESHOLD)
           /\ sum_wrote' = [sum_wrote EXCEPT ![t] = <<key, summary>>]
           /\ sum_ret' = [sum_ret EXCEPT ![t] = summary]
           /\ sum_outcome' = [sum_outcome EXCEPT ![t] = outcome.kind]
    /\ _summary_lock' = None
    /\ sum_pc' = [sum_pc EXCEPT ![t] = "done"]
    /\ UNCHANGED <<MAX_CACHE_ITEMS, CACHE_CLEANUP_THRESHOLD,
                   sum_messages, sum_generated, sum_peers>>
    /\ UNCHANGED <<llmVars, streamVars, botVars, sessionVars, contextVars, historyVars>>

\* the caller has its result and may call again
get_summary_returned(t) ==
    /\ sum_pc[t] = "done"
    /\ sum_pc' = [sum_pc EXCEPT ![t] = "idle"]
    /\ sum_messages' = [sum_messages EXCEPT ![t] = 1]
    /\ sum_ret' = [sum_ret EXCEPT ![t] = None]
    /\ sum_generated' = [sum_generated EXCEPT ![t] = 0]
    /\ sum_outcome' = [sum_outcome EXCEPT ![t] = None]
    /\ sum_wrote' = [sum_wrote EXCEPT ![t] = <<>>]
    /\ sum_peers' = [u \in SummaryTasks |-> IF u = t THEN {} ELSE sum_peers[u] \ {t}]
    /\ UNCHANGED <<MAX_CACHE_ITEMS, CACHE_CLEANUP_THRESHOLD, _summary_cache, _summary_lock>>
    /\ UNCHANGED <<llmVars, streamVars, botVars, sessionVars, contextVars, historyVars>>

\* Settings(MAX_CACHE_ITEMS=..., CACHE_CLEANUP_THRESHOLD=...): any two integers
SettingsInit ==
    /\ MAX_CACHE_ITEMS \in 1..MaxCacheItemsSetting
    /\ CACHE_CLEANUP_THRESHOLD \in 0..MaxThresholdSetting

\* one setting, for the specifications that do not use the cache
SettingsFixed ==
    /\ MAX_CACHE_ITEMS = MaxCacheItemsSetting
    /\ CACHE_CLEANUP_THRESHOLD = MaxThresholdSetting

\* ConversationSummarizer.__init__
SummaryInit ==
    /\ _summary_cache = <<>>
    /\ _summary_lock = None
    /\ sum_pc = [t \in SummaryTasks |-> "idle"]
    /\ sum_messages = [t \in SummaryTasks |-> 1]
    /\ sum_ret = [t \in SummaryTasks |-> None]
    /\ sum_generated = [t \in SummaryTasks |-> 0]
    /\ sum_outcome = [t \in SummaryTasks |-> None]
    /\ sum_wrote = [t \in SummaryTasks |-> <<>>]
    /\ sum_peers = [t \in SummaryTasks |-> {}]

SummaryNext ==
    \/ \E t \in SummaryTasks, m \in MessageSeqs : get_summary_call(t, m)
    \/ \E t \in SummaryTasks : get_summary_hit(t)
    \/ \E t \in SummaryTasks : get_summary_miss(t)
    \/ \E t \in SummaryTasks, o \in SummaryOutcomes : get_summary_generated(t, o)
    \/ \E t \in SummaryTasks : get_summary_returned(t)


(***************************************************************************)
(* core/llm.py                                                             *)
(***************************************************************************)
\* how a call ends: it returns a text (<<>> for None) or raises an exception
Returned(v) == [kind |-> "return", value |-> v]
Raised(e) == [kind |-> "raise", value |-> <<e>>]
NoResult == [kind |-> "none", value |-> <<>>]
Passed == [kind |-> "pass", value |-> <<>>]

RECURSIVE ParseStream(_, _)
\* lines 79-87: the loop over response.content, from response_text = text.
\* A line json.loads rejects is skipped; a line of another shape raises
\* IndexError or AttributeError, which the loop does not catch.
ParseStream(lines, text) ==
    IF lines = <<>> THEN Returned(text)
    ELSE LET line == Head(lines)
         IN  CASE line.kind = "not_json" -> ParseStream(Tail(lines), text)
               [] line.kind = "no_choice" -> Raised("IndexError")
               [] line.kind = "no_delta" -> ParseStream(Tail(lines), text)
               [] line.kind = "delta" -> ParseStream(Tail(lines), text \o line.content)

\* generate_response without the status check of lines 73-76
generate_response_body_ignores_status(response) ==
    LET inner == IF response.kind = "transport_error"
                 THEN Raised("ClientError")
                 ELSE ParseStream(response.lines, <<>>)
    IN  IF inner.kind = "raise" THEN Returned(APOLOGY) ELSE inner

\* lines 58-93: the body of generate_response once the request is answered
generate_response_body(response) ==
    LET inner == CASE response.kind = "transport_error" -> Raised("ClientError")
                   [] response.kind = "status_error" -> Raised("Exception")
                   [] response.kind = "ok" -> ParseStream(response.lines, <<>>)
    IN  IF inner.kind = "raise" THEN Returned(APOLOGY) ELSE inner

\* generate_response without lines 55-56
generate_response_guard_missing(initialized) == Passed

\* lines 55-56: the guard of generate_response
generate_response_guard(initialized) ==
    IF ~initialized THEN Raised("RuntimeError") ELSE Passed

\* initialize without the checks of lines 22 and 28
initialize_creates_unguarded(initialized) == TRUE

\* lines 22-23 and 28: whether initialize creates a session
initialize_creates(initialized) == ~initialized

UnusedSessions == {i \in SessionIds : session_state[i] = "absent"}
NewSession == CHOOSE i \in UnusedSessions : \A j \in UnusedSessions : i <= j

LLMFinish(t, ret) ==
    /\ llm_pc' = [llm_pc EXCEPT ![t] = "done"]
    /\ llm_ret' = [llm_ret EXCEPT ![t] = ret]

\* initialize(), lines 22-27: return if initialized, else go for the lock
initialize_call(t) ==
    /\ llm_pc[t] = "idle"
    /\ llm_op' = [llm_op EXCEPT ![t] = "initialize"]
    /\ IF initialize_creates(_initialized)
       THEN /\ llm_pc' = [llm_pc EXCEPT ![t] = "init_lock"]
            /\ UNCHANGED llm_ret
       ELSE LLMFinish(t, Returned(<<>>))
    /\ UNCHANGED <<session, _initialized, session_state, llm_sess, llm_posted>>
    /\ UNCHANGED <<summaryVars, streamVars, botVars, sessionVars, contextVars, historyVars>>

\* initialize(), lines 27-39: under the lock, which is free at every suspension
\* point because the block it guards holds no await. created = FALSE is the
\* ClientSession constructor raising: the handler awaits close() and re-raises.
initialize_locked(t, created) ==
    /\ llm_pc[t] = "init_lock"
    /\ IF ~initialize_creates(_initialized)
       THEN /\ LLMFinish(t, Returned(<<>>))
            /\ UNCHANGED <<session, _initialized, session_state, llm_sess>>
       ELSE IF created
       THEN /\ UnusedSessions # {}
            /\ session' = NewSession
            /\ session_state' = [session_state EXCEPT ![NewSession] = "open"]
            /\ _initialized' = TRUE
            /\ LLMFinish(t, Returned(<<>>))
            /\ UNCHANGED llm_sess
       ELSE IF session = NoSession
       THEN /\ LLMFinish(t, Raised("Exception"))
            /\ UNCHANGED <<session, _initialized, session_state, llm_sess>>
       ELSE /\ llm_pc' = [llm_pc EXCEPT ![t] = "closing"]
            /\ llm_sess' = [llm_sess EXCEPT ![t] = session]
            /\ UNCHANGED <<session, _initialized, session_state, llm_ret>>
    /\ UNCHANGED <<llm_op, llm_posted>>
    /\ UNCHANGED <<summaryVars, streamVars, botVars, sessionVars, contextVars, historyVars>>

\* close(), lines 43-45: nothing to do without a session, else await its close()
close_call(t) ==
    /\ llm_pc[t] = "idle"
    /\ llm_op' = [llm_op EXCEPT ![t] = "close"]
    /\ IF session = NoSession
       THEN /\ LLMFinish(t, Returned(<<>>))
            /\ UNCHANGED llm_sess
       ELSE /\ llm_pc' = [llm_pc EXCEPT ![t] = "closing"]
            /\ llm_sess' = [llm_sess EXCEPT ![t] = session]
            /\ UNCHANGED llm_ret
    /\ UNCHANGED <<session, _initialized, session_state, llm_posted>>
    /\ UNCHANGED <<summaryVars, streamVars, botVars, sessionVars, contextVars, historyVars>>

\* close(), lines 45-51: the awaited session.close() is over; closed = FALSE is
\* it raising, which the handler logs and re-raises
close_resumed(t, closed) ==
    /\ llm_pc[t] = "closing"
    /\ IF closed
       THEN /\ session_state' = [session_state EXCEPT ![llm_sess[t]] = "closed"]
            /\ session' = NoSession
            /\ _initialized' = FALSE
            /\ LLMFinish(t, IF llm_op[t] = "initialize"
                            THEN Raised("Exception") ELSE Returned(<<>>))
       ELSE /\ LLMFinish(t, Raised("Exception"))
            /\ UNCHANGED <<session, _initialized, session_state>>
    /\ llm_sess' = [llm_sess EXCEPT ![t] = NoSession]
    /\ UNCHANGED <<llm_op, llm_posted>>
    /\ UNCHANGED <<summaryVars, streamVars, botVars, sessionVars, contextVars, historyVars>>

\* generate_response(), lines 55-72: the guard, then the request is sent
generate_response_call(t) ==
    /\ llm_pc[t] = "idle"
    /\ llm_op' = [llm_op EXCEPT ![t] = "generate_response"]
    /\ IF generate_response_guard(_initialized) # Passed
       THEN /\ LLMFinish(t, generate_response_guard(_initialized))
            /\ UNCHANGED <<llm_sess, llm_posted>>
       ELSE IF session = NoSession
       THEN /\ LLMFinish(t, Returned(APOLOGY))
            /\ UNCHANGED <<llm_sess, llm_posted>>
       ELSE /\ llm_pc' = [llm_pc EXCEPT ![t] = "posting"]
            /\ llm_sess' = [llm_sess EXCEPT ![t] = session]
            /\ llm_posted' = [llm_posted EXCEPT ![t] = session]
            /\ UNCHANGED llm_ret
    /\ UNCHANGED <<session, _initialized, session_state>>
    /\ UNCHANGED <<summaryVars, streamVars, botVars, sessionVars, contextVars, historyVars>>

\* generate_response(), lines 72-93: the request is answered
generate_response_resumed(t, response) ==
    /\ llm_pc[t] = "posting"
    /\ LLMFinish(t, generate_response_body(response))
    /\ llm_sess' = [llm_sess EXCEPT ![t] = NoSession]
    /\ UNCHANGED <<session, _initialized, session_state, llm_op, llm_posted>>
    /\ UNCHANGED <<summaryVars, streamVars, botVars, sessionVars, contextVars, historyVars>>

\* the caller has the result of its call and may call again
llm_returned(t) ==
    /\ llm_pc[t] = "done"
    /\ llm_pc' = [llm_pc EXCEPT ![t] = "idle"]
    /\ llm_op' = [llm_op EXCEPT ![t] = None]
    /\ llm_ret' = [llm_ret EXCEPT ![t] = NoResult]
    /\ llm_posted' = [llm_posted EXCEPT ![t] = NoSession]
    /\ UNCHANGED <<session, _initialized, session_state, llm_sess>>
    /\ UNCHANGED <<summaryVars, streamVars, botVars, sessionVars, contextVars, historyVars>>

LLMInit ==
    /\ session = NoSession
    /\ _initialized = FALSE
    /\ session_state = [i \in SessionIds |-> "absent"]
    /\ llm_pc = [t \in LLMTasks |-> "idle"]
    /\ llm_op = [t \in LLMTasks |-> None]
    /\ llm_sess = [t \in LLMTasks |-> NoSession]
    /\ llm_posted = [t \in LLMTasks |-> NoSession]
    /\ llm_ret = [t \in LLMTasks |-> NoResult]

LLMNext ==
    \/ \E t \in LLMTasks : initialize_call(t)
    \/ \E t \in LLMTasks, created \in BOOLEAN : initialize_locked(t, created)
    \/ \E t \in LLMTasks : close_call(t)
    \/ \E t \in LLMTasks, closed \in BOOLEAN : close_resumed(t, closed)
    \/ \E t \in LLMTasks : generate_response_call(t)
    \/ \E t \in LLMTasks, r \in ResponsesInFlight : generate_response_resumed(t, r)
    \/ \E t \in LLMTasks : llm_returned(t)

\* generate_response on an initialized manager, lines 69-93, for one response
generate_response_answered ==
    /\ stream_ret = NoResult
    /\ stream_ret' = generate_response_body(stream_response)
    /\ UNCHANGED <<stream_response, summaryVars, llmVars, botVars, sessionVars, contextVars, historyVars>>

\* the next request
generate_response_again(response) ==
    /\ stream_ret # NoResult
    /\ stream_response' = response
    /\ stream_ret' = NoResult
    /\ UNCHANGED <<summaryVars, llmVars, botVars, sessionVars, contextVars, historyVars>>

StreamInit ==
    /\ stream_response = [kind |-> "ok", lines |-> <<>>]
    /\ stream_ret = NoResult

StreamNext ==
    \/ generate_response_answered
    \/ \E r \in Responses : generate_response_again(r)

(***************************************************************************)
(* core/conversation_manager.py                                            *)
(***************************************************************************)
\* seq[-n:] of Python, for n > 0
LastN(seq, n) == IF Len(seq) <= n THEN seq ELSE SubSeq(seq, Len(seq) - n + 1, Len(seq))

\* '' as a summary
NoSummary == [count |-> 0, about |-> <<>>]

\* get_context with history[-2:] for the recent messages
get_context_last_two(history) ==
    IF history = <<>>
    THEN [summary |-> NoSummary, recent_messages |-> <<>>]
    ELSE [summary |-> [count |-> Len(history),
                       about |-> [i \in 1..Len(LastN(history, 2)) |->
                                    LastN(history, 2)[i].message]],
          recent_messages |-> LastN(history, 2)]

\* get_context, lines 15-34, on the user's history ([] when the user has none):
\* the summary names the length of the history and its last two messages
get_context(history) ==
    IF history = <<>>
    THEN [summary |-> NoSummary, recent_messages |-> <<>>]
    ELSE [summary |-> [count |-> Len(history),
                       about |-> [i \in 1..Len(LastN(history, 2)) |->
                                    LastN(history, 2)[i].message]],
          recent_messages |-> LastN(history, 3)]

\* add_message without the try/except of lines 40 and 54-55
add_message_unguarded(history, user_id, message, response, context, fails) ==
    [history |-> history, raised |-> fails]

\* add_message limiting the history with [:100] instead of [-100:]
add_message_keeps_oldest(history, user_id, message, response, context, fails) ==
    LET turn == [message |-> message, response |-> response, context |-> context]
        appended == Append(history[user_id], turn)
        limited == IF Len(appended) > HISTORY_LIMIT
                   THEN SubSeq(appended, 1, HISTORY_LIMIT) ELSE appended
    IN  [history |-> IF fails THEN history ELSE [history EXCEPT ![user_id] = limited],
         raised |-> FALSE]

\* add_message, lines 40-55: the history after the call, and whether the call
\* raised. fails = TRUE is an exception inside the try block, which is logged.
add_message(history, user_id, message, response, context, fails) ==
    LET turn == [message |-> message, response |-> response, context |-> context]
        appended == Append(history[user_id], turn)
        limited == IF Len(appended) > HISTORY_LIMIT
                   THEN LastN(appended, HISTORY_LIMIT) ELSE appended
    IN  [history |-> IF fails THEN history ELSE [history EXCEPT ![user_id] = limited],
         raised |-> FALSE]

\* the turn the n-th add_message call stores
TurnOf(n) ==
    [message |-> <<"message", n>>, response |-> <<"response", n>>,
     context |-> [search_results |-> <<>>, summary_used |-> FALSE]]

\* a history of n turns stored before the calls of the behaviour
EarlierTurns(n) == [i \in 1..n |-> TurnOf(i - n)]

\* a caller's await of add_message(user_id, ...), lines 38-55. The coroutine
\* holds no await: it runs from its first line to its last when it is awaited,
\* so concurrent callers' calls run one after the other, in some order.
add_message_called(t, user_id, fails) ==
    /\ add_pc[t] = "idle"
    /\ \A earlier \in 1..(t - 1) : add_pc[earlier] # "idle"
    /\ LET turn == TurnOf(t)
           saved == add_message(mgr_history, user_id, turn.message, turn.response,
                                turn.context, fails)
       IN  /\ mgr_history' = saved.history
           /\ mgr_stored' = IF fails THEN mgr_stored
                            ELSE [mgr_stored EXCEPT ![user_id] = Append(@, turn)]
    /\ add_pc' = [add_pc EXCEPT ![t] = IF fails THEN "failed" ELSE "stored"]
    /\ add_user' = [add_user EXCEPT ![t] = user_id]
    /\ UNCHANGED <<summaryVars, llmVars, streamVars, botVars, sessionVars, contextVars>>

\* ConversationManager.close(), lines 57-59
history_close ==
    /\ \E u \in Users : mgr_history[u] # <<>>
    /\ mgr_history' = [u \in Users |-> <<>>]
    /\ mgr_stored' = [u \in Users |-> <<>>]
    /\ UNCHANGED <<add_pc, add_user>>
    /\ UNCHANGED <<summaryVars, llmVars, streamVars, botVars, sessionVars, contextVars>>

\* a ConversationManager whose users have no turns, or HISTORY_LIMIT - 1 or
\* HISTORY_LIMIT turns from earlier calls
HistoryInit ==
    /\ mgr_history \in [Users -> {EarlierTurns(n) : n \in {0, HISTORY_LIMIT - 1, HISTORY_LIMIT}}]
    /\ mgr_stored = mgr_history
    /\ add_pc = [t \in AddTasks |-> "idle"]
    /\ add_user = [t \in AddTasks |-> "u1"]

\* ConversationManager.__init__, for the specifications about other components
HistoryFixed ==
    /\ mgr_history = [u \in Users |-> <<>>]
    /\ mgr_stored = [u \in Users |-> <<>>]
    /\ add_pc = [t \in AddTasks |-> "idle"]
    /\ add_user = [t \in AddTasks |-> "u1"]

HistoryNext ==
    \/ \E t \in AddTasks, u \in Users, fails \in BOOLEAN : add_message_called(t, u, fails)
    \/ history_close

(***************************************************************************)
(* main.py                                                                 *)
(***************************************************************************)
\* ' '.join(texts), line 104: a text is a sequence of words, " " a word
JoinSpace(texts) ==
    IF texts = <<>> THEN <<>>
    ELSE [i \in 1..(2 * Len(texts) - 1) |->
            IF i % 2 = 1 THEN texts[(i + 1) \div 2] ELSE " "]

\* process_message with the assistant's message before the user's
BuildPrompt_assistant_first(context, search_results, message) ==
    LET recent == context.recent_messages
    IN  <<[role |-> "system",
           content |-> [summary |-> context.summary,
                        relevant |-> JoinSpace(search_results)]]>>
        \o [i \in 1..(2 * Len(recent)) |->
                IF i % 2 = 0
                THEN [role |-> "user", content |-> recent[i \div 2].message]
                ELSE [role |-> "assistant", content |-> recent[(i + 1) \div 2].response]]
        \o <<[role |-> "user", content |-> message]>>

\* lines 97-116: the messages for the model
BuildPrompt(context, search_results, message) ==
    LET recent == context.recent_messages
    IN  <<[role |-> "system",
           content |-> [summary |-> context.summary,
                        relevant |-> JoinSpace(search_results)]]>>
        \o [i \in 1..(2 * Len(recent)) |->
                IF i % 2 = 1
                THEN [role |-> "user", content |-> recent[(i + 1) \div 2].message]
                ELSE [role |-> "assistant", content |-> recent[i \div 2].response]]
        \o <<[role |-> "user", content |-> message]>>

\* line 91: whether self.vector_store.similarity_search can be looked up
HasSimilaritySearch(store) == store = "RetrievalClient"

\* the collaborator calls of one turn, lines 89-131
Collaborators == {"get_context", "similarity_search", "generate_response", "add_message"}

\* no collaborator has been called
NoCalls == [c \in Collaborators |-> "none"]

\* lines 82-83: the guard of process_message, before the try
process_message_guard_missing(initialized) == Passed

process_message_guard(initialized) ==
    IF ~initialized THEN Raised("RuntimeError") ELSE Passed

\* line 95: asyncio.gather ends when every awaitable given to it has returned
gather_ready_first_completed(calls) ==
    calls["get_context"] = "returned" \/ calls["similarity_search"] = "returned"

gather_ready(calls) ==
    calls["get_context"] = "returned" /\ calls["similarity_search"] = "returned"

\* add_message was not reached
NotSaved == [raised |-> FALSE]

\* process_message without the handler of lines 136-138
process_message_result_reraises(generated, saved) == generated

\* lines 134-138: what process_message returns once the try block has ended,
\* by generated (a return value or an exception) or by a raising add_message
process_message_result(generated, saved) ==
    IF generated.kind = "raise" \/ saved.raised THEN Returned(APOLOGY) ELSE generated

\* process_message ends: its locals go with its frame
BotFinish(t, ret) ==
    /\ bot_pc' = [bot_pc EXCEPT ![t] = "done"]
    /\ bot_ret' = [bot_ret EXCEPT ![t] = ret]
    /\ bot_context' = [bot_context EXCEPT ![t] = get_context(<<>>)]
    /\ bot_search' = [bot_search EXCEPT ![t] = <<>>]
    /\ bot_prompt' = [bot_prompt EXCEPT ![t] = <<>>]

\* process_message, lines 82-95: the guard, the two coroutines, the gather.
\* gather makes a task of each coroutine; both are pending when process_message
\* is suspended. Without similarity_search line 91 raises AttributeError before
\* gather is reached, and the get_context coroutine is never run.
process_message_call(t, user_id) ==
    /\ bot_pc[t] = "idle"
    /\ \A earlier \in 1..(t - 1) : bot_pc[earlier] # "idle"
    /\ bot_user' = [bot_user EXCEPT ![t] = user_id]
    /\ bot_message' = [bot_message EXCEPT ![t] = MessageOf(t)]
    /\ IF process_message_guard(chatbot_initialized) # Passed
       THEN /\ BotFinish(t, process_message_guard(chatbot_initialized))
            /\ UNCHANGED bot_calls
       ELSE IF ~HasSimilaritySearch(vector_store)
       THEN /\ BotFinish(t, process_message_result(Raised("AttributeError"), NotSaved))
            /\ UNCHANGED bot_calls
       ELSE /\ bot_pc' = [bot_pc EXCEPT ![t] = "gathering"]
            /\ bot_calls' = [bot_calls EXCEPT ![t] =
                    [NoCalls EXCEPT !["get_context"] = "started",
                                    !["similarity_search"] = "started"]]
            /\ UNCHANGED <<bot_ret, bot_context, bot_search, bot_prompt>>
    /\ UNCHANGED <<chatbot_initialized, vector_store, _history, life_pc, life_op, life_ret,
                   bot_answer, bot_generated, bot_saved>>
    /\ UNCHANGED <<summaryVars, llmVars, streamVars, sessionVars, contextVars, historyVars>>

\* lines 95-120: the gather has ended with context and search_results; the
\* prompt is built and generate_response called, up to its request
gather_returned(t, context, search_results, calls) ==
    IF generate_response_guard(_initialized) # Passed
    THEN /\ bot_generated' = [bot_generated EXCEPT ![t] =
                generate_response_guard(_initialized)]
         /\ bot_calls' = [bot_calls EXCEPT ![t] =
                [calls EXCEPT !["generate_response"] = "raised"]]
         /\ BotFinish(t, process_message_result(generate_response_guard(_initialized),
                                                NotSaved))
    ELSE /\ bot_context' = [bot_context EXCEPT ![t] = context]
         /\ bot_search' = [bot_search EXCEPT ![t] = search_results]
         /\ bot_prompt' = [bot_prompt EXCEPT ![t] =
                BuildPrompt(context, search_results, bot_message[t])]
         /\ bot_calls' = [bot_calls EXCEPT ![t] =
                [calls EXCEPT !["generate_response"] = "started"]]
         /\ bot_pc' = [bot_pc EXCEPT ![t] = "generating"]
         /\ UNCHANGED <<bot_generated, bot_ret>>

\* the get_context task of the gather runs; it holds no await
get_context_run(t) ==
    /\ bot_pc[t] = "gathering"
    /\ LET context == get_context(_history[bot_user[t]])
           calls == [bot_calls[t] EXCEPT !["get_context"] = "returned"]
       IN  IF gather_ready(calls)
           THEN gather_returned(t, context, bot_search[t], calls)
           ELSE /\ bot_context' = [bot_context EXCEPT ![t] = context]
                /\ bot_calls' = [bot_calls EXCEPT ![t] = calls]
                /\ bot_pc' = [bot_pc EXCEPT ![t] = "searching"]
                /\ UNCHANGED <<bot_search, bot_prompt, bot_generated, bot_ret>>
    /\ UNCHANGED <<chatbot_initialized, vector_store, _history, life_pc, life_op, life_ret,
                   bot_user, bot_message, bot_answer, bot_saved>>
    /\ UNCHANGED <<summaryVars, llmVars, streamVars, sessionVars, contextVars, historyVars>>

\* similarity_search ends: by an exception, which ends the gather and the
\* try block, or by its results, which end the gather once get_context is over
gather_resumed(t, found) ==
    /\ bot_pc[t] = "searching"
    /\ IF found.kind = "raise"
       THEN /\ bot_calls' = [bot_calls EXCEPT ![t]["similarity_search"] = "raised"]
            /\ BotFinish(t, process_message_result(found, NotSaved))
            /\ UNCHANGED bot_generated
       ELSE LET calls == [bot_calls[t] EXCEPT !["similarity_search"] = "returned"]
            IN  IF gather_ready(calls)
                THEN gather_returned(t, bot_context[t], found.value, calls)
                ELSE /\ bot_search' = [bot_search EXCEPT ![t] = found.value]
                     /\ bot_calls' = [bot_calls EXCEPT ![t] = calls]
                     /\ UNCHANGED <<bot_pc, bot_context, bot_prompt, bot_generated, bot_ret>>
    /\ UNCHANGED <<chatbot_initialized, vector_store, _history, life_pc, life_op, life_ret,
                   bot_user, bot_message, bot_answer, bot_saved>>
    /\ UNCHANGED <<summaryVars, llmVars, streamVars, sessionVars, contextVars, historyVars>>

\* lines 120-138: the request is answered, generate_response ends, add_message
\* runs (it holds no await) and process_message returns
generate_resumed(t, response, fails) ==
    /\ bot_pc[t] = "generating"
    /\ LET generated == generate_response_body(response)
           saved == add_message(_history, bot_user[t], bot_message[t], generated.value,
                                [search_results |-> bot_search[t],
                                 summary_used |-> bot_context[t].summary # NoSummary],
                                fails)
       IN  /\ bot_answer' = [bot_answer EXCEPT ![t] = response.kind]
           /\ bot_generated' = [bot_generated EXCEPT ![t] = generated]
           /\ IF generated.kind = "raise"
              THEN /\ bot_calls' = [bot_calls EXCEPT ![t]["generate_response"] = "raised"]
                   /\ UNCHANGED <<_history, bot_saved>>
              ELSE /\ _history' = saved.history
                   /\ bot_saved' = [bot_saved EXCEPT ![t] = IF fails THEN "failed" ELSE "ok"]
                   /\ bot_calls' = [bot_calls EXCEPT
                        ![t]["generate_response"] = "returned",
                        ![t]["add_message"] = IF saved.raised THEN "raised" ELSE "returned"]
           /\ BotFinish(t, process_message_result(generated,
                    IF generated.kind = "raise" THEN NotSaved ELSE saved))
    /\ UNCHANGED <<chatbot_initialized, vector_store, life_pc, life_op, life_ret,
                   bot_user, bot_message>>
    /\ UNCHANGED <<summaryVars, llmVars, streamVars, sessionVars, contextVars, historyVars>>

\* EnhancedChatbot.close() past the LLM manager's close(), lines 68-74:
\* ConversationManager.close() clears the history
chatbot_closed(ret) ==
    /\ _history' = [u \in Users |-> <<>>]
    /\ chatbot_initialized' = FALSE
    /\ life_pc' = "idle"
    /\ life_ret' = ret

\* initialize() with the two collaborators the other way round
initialize_order_llm_first == <<"llm", "vector_store">>

\* lines 48 and 52: the collaborators initialize() initializes, in order
initialize_order == <<"vector_store", "llm">>

\* seq up to and including its first x
PrefixThrough(seq, x) ==
    SubSeq(seq, 1, CHOOSE i \in 1..Len(seq) : seq[i] = x /\ \A j \in 1..(i - 1) : seq[j] # x)

\* EnhancedChatbot.initialize(), lines 42-61. failure = "vector_store" is
\* vector_store.initialize() raising, failure = "session" the ClientSession
\* constructor raising in LLMManager.initialize(); both end in close() and the
\* exception re-raised. Neither collaborator suspends: vector_store.initialize()
\* holds no await and the lock of LLMManager is free. An initialize() that
\* returns at line 43 calls nothing that could fail.
chatbot_initialize(failure) ==
    /\ life_pc = "idle"
    /\ life_op' = "initialize"
    /\ IF chatbot_initialized
       THEN /\ failure = "none"
            /\ life_ret' = Returned(<<>>)
            /\ UNCHANGED <<chatbot_initialized, _history, life_pc,
                           session, _initialized, session_state>>
       ELSE LET failing == IF failure = "vector_store" THEN "vector_store"
                           ELSE IF failure = "session" /\ initialize_creates(_initialized)
                           THEN "llm" ELSE None
                made == IF failing = None THEN initialize_order
                        ELSE PrefixThrough(initialize_order, failing)
                creates == /\ "llm" \in Range(made)
                           /\ failing # "llm"
                           /\ initialize_creates(_initialized)
            IN  /\ IF creates
                   THEN /\ UnusedSessions # {}
                        /\ session' = NewSession
                        /\ session_state' = [session_state EXCEPT ![NewSession] = "open"]
                        /\ _initialized' = TRUE
                   ELSE UNCHANGED <<session, _initialized, session_state>>
                /\ IF failing = None
                   THEN /\ chatbot_initialized' = TRUE
                        /\ life_ret' = Returned(<<>>)
                        /\ UNCHANGED <<_history, life_pc>>
                   ELSE IF session' = NoSession
                   THEN chatbot_closed(Raised("Exception"))
                   ELSE /\ life_pc' = "closing"
                        /\ UNCHANGED <<chatbot_initialized, _history, life_ret>>
    /\ UNCHANGED <<vector_store, bot_pc, bot_user, bot_message, bot_context,
                   bot_search, bot_prompt, bot_answer, bot_generated, bot_saved, bot_calls, bot_ret>>
    /\ UNCHANGED <<llm_pc, llm_op, llm_sess, llm_posted, llm_ret>>
    /\ UNCHANGED <<summaryVars, streamVars, sessionVars, contextVars, historyVars>>

\* EnhancedChatbot.close(), lines 65-67: into LLMManager.close(), which awaits
\* session.close() when there is a session
chatbot_close_call ==
    /\ life_pc = "idle"
    /\ life_op' = "close"
    /\ IF session = NoSession
       THEN chatbot_closed(Returned(<<>>))
       ELSE /\ life_pc' = "closing"
            /\ UNCHANGED <<chatbot_initialized, _history, life_ret>>
    /\ UNCHANGED <<vector_store, bot_pc, bot_user, bot_message, bot_context,
                   bot_search, bot_prompt, bot_answer, bot_generated, bot_saved, bot_calls, bot_ret>>
    /\ UNCHANGED <<summaryVars, llmVars, streamVars, sessionVars, contextVars, historyVars>>

\* the awaited session.close() is over: LLMManager.close() lines 45-51, then
\* EnhancedChatbot.close() lines 68-78. closed = FALSE is session.close()
\* raising, which both handlers re-raise.
chatbot_close_resumed(closed) ==
    /\ life_pc = "closing"
    /\ IF closed
       THEN /\ session_state' = [session_state EXCEPT ![session] = "closed"]
            /\ session' = NoSession
            /\ _initialized' = FALSE
            /\ chatbot_closed(IF life_op = "initialize"
                              THEN Raised("Exception") ELSE Returned(<<>>))
       ELSE /\ life_pc' = "idle"
            /\ life_ret' = Raised("Exception")
            /\ UNCHANGED <<session, _initialized, session_state, chatbot_initialized, _history>>
    /\ UNCHANGED <<vector_store, life_op, bot_pc, bot_user, bot_message,
                   bot_context, bot_search, bot_prompt, bot_answer, bot_generated,
                   bot_saved, bot_calls, bot_ret>>
    /\ UNCHANGED <<llm_pc, llm_op, llm_sess, llm_posted, llm_ret>>
    /\ UNCHANGED <<summaryVars, streamVars, sessionVars, contextVars, historyVars>>

\* EnhancedChatbot.__init__ and ConversationManager.__init__
BotInit ==
    /\ chatbot_initialized = FALSE
    /\ _history = [u \in Users |-> <<>>]
    /\ life_pc = "idle"
    /\ life_op = None
    /\ life_ret = NoResult
    /\ bot_pc = [t \in BotTasks |-> "idle"]
    /\ bot_user = [t \in BotTasks |-> "u1"]
    /\ bot_message = [t \in BotTasks |-> <<>>]
    /\ bot_context = [t \in BotTasks |-> get_context(<<>>)]
    /\ bot_search = [t \in BotTasks |-> <<>>]
    /\ bot_prompt = [t \in BotTasks |-> <<>>]
    /\ bot_answer = [t \in BotTasks |-> None]
    /\ bot_generated = [t \in BotTasks |-> NoResult]
    /\ bot_saved = [t \in BotTasks |-> None]
    /\ bot_calls = [t \in BotTasks |-> NoCalls]
    /\ bot_ret = [t \in BotTasks |-> NoResult]

BotNext ==
    \/ \E failure \in {"none", "vector_store", "session"} : chatbot_initialize(failure)
    \/ chatbot_close_call
    \/ \E closed \in BOOLEAN : chatbot_close_resumed(closed)
    \/ \E t \in BotTasks : \E u \in Callers(t) : process_message_call(t, u)
    \/ \E t \in BotTasks : get_context_run(t)
    \/ \E t \in BotTasks, f \in SearchOutcomes : gather_resumed(t, f)
    \/ \E t \in BotTasks, r \in BotResponses, fails \in BOOLEAN :
            generate_resumed(t, r, fails)

(***************************************************************************)
(* utils/async_utils.py                                                    *)
(***************************************************************************)
UnusedManagerSessions == {id \in SessionIds : sm_state[id] = "absent"}
NewManagerSession == Min(UnusedManagerSessions)

SessionFinish(t, ret) ==
    /\ sm_pc' = [sm_pc EXCEPT ![t] = "done"]
    /\ sm_ret' = [sm_ret EXCEPT ![t] = ret]

\* lines 15 and 17: whether _get_session creates a session
get_session_creates(current) == current = NoSession

\* async with self._get_session(), lines 15-23, up to the body. The lock of line
\* 16 is never held across an await, so it is free and is taken and released
\* without a suspension. created = FALSE is the ClientSession constructor raising.
get_session_enter(t, created) ==
    /\ sm_pc[t] = "idle"
    /\ sm_op' = [sm_op EXCEPT ![t] = "use"]
    /\ IF get_session_creates(_session)
       THEN IF created
            THEN /\ UnusedManagerSessions # {}
                 /\ _session' = NewManagerSession
                 /\ sm_state' = [sm_state EXCEPT ![NewManagerSession] = "open"]
                 /\ sm_sess' = [sm_sess EXCEPT ![t] = NewManagerSession]
                 /\ sm_pc' = [sm_pc EXCEPT ![t] = "in_body"]
                 /\ UNCHANGED sm_ret
            ELSE /\ SessionFinish(t, Raised("Exception"))
                 /\ UNCHANGED <<_session, sm_state, sm_sess>>
       ELSE /\ created
            /\ sm_sess' = [sm_sess EXCEPT ![t] = _session]
            /\ sm_pc' = [sm_pc EXCEPT ![t] = "in_body"]
            /\ UNCHANGED <<_session, sm_state, sm_ret>>
    /\ UNCHANGED <<summaryVars, llmVars, streamVars, botVars, contextVars, historyVars>>

\* the body of the async with ends, lines 23-26: normally, or by an exception,
\* on which close() is awaited (lines 30-31) before the exception is re-raised
get_session_exit(t, ok) ==
    /\ sm_pc[t] = "in_body"
    /\ IF ok
       THEN /\ SessionFinish(t, Returned(<<>>))
            /\ sm_sess' = [sm_sess EXCEPT ![t] = NoSession]
       ELSE IF _session = NoSession
       THEN /\ SessionFinish(t, Raised("Exception"))
            /\ sm_sess' = [sm_sess EXCEPT ![t] = NoSession]
       ELSE /\ sm_pc' = [sm_pc EXCEPT ![t] = "closing"]
            /\ sm_sess' = [sm_sess EXCEPT ![t] = _session]
            /\ UNCHANGED sm_ret
    /\ UNCHANGED <<_session, sm_state, sm_op>>
    /\ UNCHANGED <<summaryVars, llmVars, streamVars, botVars, contextVars, historyVars>>

\* close(), lines 30-31: up to the await on the session's close()
session_close_call(t) ==
    /\ sm_pc[t] = "idle"
    /\ sm_op' = [sm_op EXCEPT ![t] = "close"]
    /\ IF _session = NoSession
       THEN /\ SessionFinish(t, Returned(<<>>))
            /\ UNCHANGED sm_sess
       ELSE /\ sm_pc' = [sm_pc EXCEPT ![t] = "closing"]
            /\ sm_sess' = [sm_sess EXCEPT ![t] = _session]
            /\ UNCHANGED sm_ret
    /\ UNCHANGED <<_session, sm_state>>
    /\ UNCHANGED <<summaryVars, llmVars, streamVars, botVars, contextVars, historyVars>>

\* the awaited close() of the session is over: line 32, and for a failed body
\* line 26. closed = FALSE is the session's close() raising.
session_close_resumed(t, closed) ==
    /\ sm_pc[t] = "closing"
    /\ IF closed
       THEN /\ sm_state' = [sm_state EXCEPT ![sm_sess[t]] = "closed"]
            /\ _session' = NoSession
            /\ SessionFinish(t, IF sm_op[t] = "use"
                                THEN Raised("Exception") ELSE Returned(<<>>))
       ELSE /\ SessionFinish(t, Raised("Exception"))
            /\ UNCHANGED <<_session, sm_state>>
    /\ sm_sess' = [sm_sess EXCEPT ![t] = NoSession]
    /\ UNCHANGED sm_op
    /\ UNCHANGED <<summaryVars, llmVars, streamVars, botVars, contextVars, historyVars>>

\* the caller has its result and may call again
session_returned(t) ==
    /\ sm_pc[t] = "done"
    /\ sm_pc' = [sm_pc EXCEPT ![t] = "idle"]
    /\ sm_op' = [sm_op EXCEPT ![t] = None]
    /\ sm_ret' = [sm_ret EXCEPT ![t] = NoResult]
    /\ UNCHANGED <<_session, sm_state, sm_sess>>
    /\ UNCHANGED <<summaryVars, llmVars, streamVars, botVars, contextVars, historyVars>>

\* AsyncSessionManager.__init__
SessionInit ==
    /\ _session = NoSession
    /\ sm_state = [id \in SessionIds |-> "absent"]
    /\ sm_pc = [t \in SessionTasks |-> "idle"]
    /\ sm_op = [t \in SessionTasks |-> None]
    /\ sm_sess = [t \in SessionTasks |-> NoSession]
    /\ sm_ret = [t \in SessionTasks |-> NoResult]

SessionNext ==
    \/ \E t \in SessionTasks, created \in BOOLEAN : get_session_enter(t, created)
    \/ \E t \in SessionTasks, ok \in BOOLEAN : get_session_exit(t, ok)
    \/ \E t \in SessionTasks : session_close_call(t)
    \/ \E t \in SessionTasks, closed \in BOOLEAN : session_close_resumed(t, closed)
    \/ \E t \in SessionTasks : session_returned(t)

(***************************************************************************)
(* get_context and the prompt of process_message on given inputs           *)
(***************************************************************************)
\* the turns add_message can have stored
StoredTurns ==
    {[message |-> <<"message", n>>, response |-> <<"response", n>>,
      context |-> [search_results |-> <<>>, summary_used |-> FALSE]] : n \in 1..2}
\* the passages similarity_search can have returned (their texts)
Passages == {<<>>, <<"passage">>, <<"passage", "other">>}

\* ConversationManager.get_context is called on the stored history
get_context_applied ==
    /\ ctx_ret = NoResult
    /\ ctx_ret' = Returned(get_context(ctx_history))
    /\ UNCHANGED <<ctx_history, ctx_search, ctx_message, ctx_prompt>>
    /\ UNCHANGED <<summaryVars, llmVars, streamVars, botVars, sessionVars, historyVars>>

\* main.py lines 97-116 on that context
prompt_built ==
    /\ ctx_ret # NoResult
    /\ ctx_prompt = <<>>
    /\ ctx_prompt' = BuildPrompt(ctx_ret.value, ctx_search, ctx_message)
    /\ UNCHANGED <<ctx_history, ctx_search, ctx_message, ctx_ret>>
    /\ UNCHANGED <<summaryVars, llmVars, streamVars, botVars, sessionVars, historyVars>>

\* any stored history, any passages
ContextInit ==
    /\ ctx_history \in SeqsUpTo(StoredTurns, MaxTurns)
    /\ ctx_search \in Passages
    /\ ctx_message = <<"message", 0>>
    /\ ctx_ret = NoResult
    /\ ctx_prompt = <<>>

\* one input, for the specifications about other components
ContextFixed ==
    /\ ctx_history = <<>>
    /\ ctx_search = <<>>
    /\ ctx_message = <<"message", 0>>
    /\ ctx_ret = NoResult
    /\ ctx_prompt = <<>>

ContextNext ==
    \/ get_context_applied
    \/ prompt_built

(***************************************************************************)
(* Claims about the summary cache (checked under SpecSummary)              *)
(***************************************************************************)
SumKey(t) == _get_cache_key(sum_messages[t])

\* a step in which the call of t completes its miss path (lines 23-25)
MissCompletes(t) == sum_pc[t] = "generating" /\ sum_pc'[t] = "done"

\* the keys of the n largest entries of a key set
LargestKeys(S, n) == {k \in S : Cardinality({j \in S : j > k}) < n}

\* C1: of two get_summary calls that are in flight at the same time with the
\* same cache key, at most one invokes _generate_summary and both return the
\* same summary.
C1_ConcurrentCallsGenerateOnce ==
    \A t, u \in SummaryTasks :
        (t # u /\ u \in sum_peers[t] /\ sum_pc[t] = "done" /\ sum_pc[u] = "done")
            => /\ sum_generated[t] + sum_generated[u] <= 1
               /\ sum_ret[t] = sum_ret[u]

C3_CacheNeverExceedsMax ==
    [][\A t \in SummaryTasks :
        MissCompletes(t)
            => /\ Cardinality(DOMAIN _summary_cache') <= MAX_CACHE_ITEMS
               /\ Cardinality(DOMAIN _summary_cache \cup {SumKey(t)}) > MAX_CACHE_ITEMS
                    => Cardinality(DOMAIN _summary_cache') <= CACHE_CLEANUP_THRESHOLD
      ]_vars

\* C4: when an insertion pushes the size above MAX_CACHE_ITEMS, the entries left
\* are exactly the CACHE_CLEANUP_THRESHOLD entries with the largest keys, each
\* with the summary it had.
C4_EvictionKeepsLargestKeys ==
    [][\A t \in SummaryTasks :
        (MissCompletes(t)
            /\ Cardinality(DOMAIN _summary_cache \cup {SumKey(t)}) > MAX_CACHE_ITEMS)
            => LET stored == CacheStore(_summary_cache, SumKey(t), sum_ret'[t])
               IN  /\ DOMAIN _summary_cache' =
                        LargestKeys(DOMAIN stored, CACHE_CLEANUP_THRESHOLD)
                   /\ \A k \in DOMAIN _summary_cache' : _summary_cache'[k] = stored[k]
      ]_vars

\* C22: when a get_summary call returns, the cache holds the returned summary
\* under the key of its messages, also when the insertion triggered the
\* cleanup, so that the next call with the same messages is a hit.
C22_ReturnedSummaryIsCached ==
    [][\A t \in SummaryTasks :
        (sum_pc[t] # "done" /\ sum_pc'[t] = "done")
            => /\ SumKey(t) \in DOMAIN _summary_cache'
               /\ _summary_cache'[SumKey(t)] = sum_ret'[t]
      ]_vars

\* C15: a get_summary call whose remote call failed (a non-success status, a
\* transport error, a malformed body) has returned the fallback string, and
\* the lock is held by nobody but a caller inside _generate_summary.
C15_FailedSummaryReturnsFallback ==
    /\ \A t \in SummaryTasks :
        (sum_pc[t] = "done"
            /\ sum_outcome[t] \in {"http_error", "transport_error", "bad_body"})
                => /\ sum_ret[t] = SUMMARY_FALLBACK
                   /\ _summary_lock # t
    /\ _summary_lock # None => sum_pc[_summary_lock] = "generating"

\* a call failed, and a later call for the same messages was served
C15_Witness ==
    \E t \in SummaryTasks, u \in SummaryTasks :
        /\ t # u
        /\ sum_pc[t] = "done"
        /\ sum_outcome[t] = "bad_body"
        /\ sum_ret[t] = SUMMARY_FALLBACK
        /\ sum_pc[u] = "done"
        /\ sum_messages[u] = sum_messages[t]
        /\ t \in sum_peers[u]
        /\ sum_generated[u] = 0
        /\ sum_ret[u] = SUMMARY_FALLBACK
        /\ _summary_lock = None

\* C23: the fallback string of a failed summarization is stored under the key
\* like any summary, and while it is in the cache a get_summary call with the
\* same messages returns it without calling _generate_summary.
C23_FallbackIsCached ==
    [][\A t \in SummaryTasks :
        /\ (MissCompletes(t)
                /\ sum_outcome'[t] \in {"http_error", "transport_error", "bad_body"}
                /\ Cardinality(DOMAIN _summary_cache \cup {SumKey(t)}) <= MAX_CACHE_ITEMS)
            => /\ SumKey(t) \in DOMAIN _summary_cache'
               /\ _summary_cache'[SumKey(t)] = SUMMARY_FALLBACK
               /\ \A k \in DOMAIN _summary_cache :
                    k \in DOMAIN _summary_cache'
                        /\ (k # SumKey(t) => _summary_cache'[k] = _summary_cache[k])
        /\ (/\ sum_pc[t] = "waiting"
            /\ sum_pc'[t] # "waiting"
            /\ SumKey(t) \in DOMAIN _summary_cache
            /\ _summary_cache[SumKey(t)] = SUMMARY_FALLBACK)
            => /\ sum_pc'[t] = "done"
               /\ sum_ret'[t] = SUMMARY_FALLBACK
               /\ sum_generated'[t] = 0
               /\ sum_outcome'[t] = None
      ]_vars

\* a summarization failed and returned; a call made after it with the same
\* messages was served the fallback from the cache
C23_Witness ==
    \E t \in SummaryTasks, u \in SummaryTasks :
        /\ t # u
        /\ sum_pc[t] = "done"
        /\ sum_outcome[t] = "http_error"
        /\ sum_pc[u] = "done"
        /\ sum_messages[u] = sum_messages[t]
        /\ t \notin sum_peers[u]
        /\ u \notin sum_peers[t]
        /\ sum_generated[u] = 0
        /\ sum_outcome[u] = None
        /\ sum_ret[u] = SUMMARY_FALLBACK
        /\ _summary_cache[SumKey(t)] = SUMMARY_FALLBACK

(***************************************************************************)
(* Claims about the generation client (checked under SpecLLM)              *)
(***************************************************************************)
OpenSessions == {i \in SessionIds : session_state[i] = "open"}
ClosedSessions == {i \in SessionIds : session_state[i] = "closed"}
LLMInFlight(t) == llm_pc[t] \in {"init_lock", "closing", "posting"}

\* a step in which task t enters the method op
Calls(t, op) == llm_pc[t] = "idle" /\ llm_pc'[t] # "idle" /\ llm_op'[t] = op

\* a step of an initialize() call of t
InitializeStep(t) ==
    \/ Calls(t, "initialize")
    \/ llm_pc[t] = "init_lock" /\ llm_pc'[t] # "init_lock"

\* C5: as long as no session has been closed, initialize() calls, interleaved
\* in any way, have created at most one session, exactly one once a call has
\* returned, and a step of an initialize() call made while _initialized is
\* True changes neither session nor _initialized nor any session.
C5_InitializeCreatesOneSession ==
    /\ [](ClosedSessions = {} =>
            /\ Cardinality(OpenSessions) <= 1
            /\ \A t \in LLMTasks :
                (llm_op[t] = "initialize" /\ llm_pc[t] = "done" /\ llm_ret[t].kind = "return")
                    => /\ Cardinality(OpenSessions) = 1
                       /\ session \in OpenSessions
                       /\ _initialized)
    /\ [][\A t \in LLMTasks :
            (InitializeStep(t) /\ _initialized)
                => /\ UNCHANGED <<session, _initialized, session_state>>
                   /\ llm_ret'[t] = Returned(<<>>)
         ]_vars

\* C5 witness: a call that passed the check of line 22 is still waiting for the
\* lock when another call has created the session and returned.
C5_Witness ==
    \E t, u \in LLMTasks :
        /\ llm_pc[t] = "init_lock"
        /\ llm_op[u] = "initialize" /\ llm_pc[u] = "done" /\ llm_ret[u].kind = "return"
        /\ _initialized
        /\ Cardinality(OpenSessions) = 1
        /\ ClosedSessions = {}

\* C6: when a close() returns and no other call is in flight, session is None,
\* _initialized is False and no session that was created is still open.
C6_CloseReleasesEverySession ==
    [][\A t \in LLMTasks :
        (/\ llm_op[t] = "close" \/ Calls(t, "close")
         /\ llm_pc[t] # "done" /\ llm_pc'[t] = "done"
         /\ llm_ret'[t].kind = "return"
         /\ \A u \in LLMTasks \ {t} : ~LLMInFlight(u))
            => /\ session' = NoSession
               /\ ~_initialized'
               /\ \A i \in SessionIds : session_state'[i] # "open"
      ]_vars

\* C7: generate_response called while _initialized is False raises
\* RuntimeError, sends no request and changes nothing of the manager.
C7_GenerateBeforeInitializeRaises ==
    [][\A t \in LLMTasks :
        (Calls(t, "generate_response") /\ ~_initialized)
            => /\ llm_pc'[t] = "done"
               /\ llm_ret'[t] = Raised("RuntimeError")
               /\ llm_posted'[t] = NoSession
               /\ UNCHANGED <<session, _initialized, session_state>>
      ]_vars

\* C7 witness: after a completed close(), a generate_response call has raised
\* RuntimeError without a request.
C7_Witness ==
    \E t \in LLMTasks :
        /\ llm_op[t] = "generate_response" /\ llm_pc[t] = "done"
        /\ llm_ret[t] = Raised("RuntimeError")
        /\ llm_posted[t] = NoSession
        /\ ~_initialized
        /\ ClosedSessions # {}

\* _initialized is set exactly when there is a session
FlagMatchesSession == _initialized <=> session # NoSession

\* C20: at every suspension point _initialized is set exactly when there is a
\* session, and generate_response sends no request on a session on which a
\* close() call is already awaiting session.close().
C20_FlagMatchesSessionNoRequestOnClosing ==
    [][/\ FlagMatchesSession'
       /\ \A t \in LLMTasks :
            (llm_pc[t] # "posting" /\ llm_pc'[t] = "posting")
                => \A u \in LLMTasks :
                        ~(llm_pc[u] = "closing" /\ llm_sess[u] = llm_posted'[t])]_vars

(***************************************************************************)
(* Claims about the response stream (checked under SpecStream)             *)
(***************************************************************************)
RECURSIVE ContentOfDeltas(_)
\* the contents of the delta lines of a stream, concatenated in order
ContentOfDeltas(lines) ==
    IF lines = <<>> THEN <<>>
    ELSE (IF Head(lines).kind = "delta" THEN Head(lines).content ELSE <<>>)
            \o ContentOfDeltas(Tail(lines))

\* C8: for a response with a success status and any lines, generate_response
\* returns the contents of the delta lines concatenated in order of arrival.
C8_StreamConcatenatesDeltas ==
    (stream_ret # NoResult /\ stream_response.kind = "ok")
        => stream_ret = Returned(ContentOfDeltas(stream_response.lines))

(***************************************************************************)
(* Claims about the orchestrator (checked under SpecBot)                   *)
(***************************************************************************)
\* C9: a process_message call whose request the endpoint answered with a
\* non-success status has returned the apology string, and has not raised.
C9_StatusErrorReturnsApology ==
    \A t \in BotTasks :
        (bot_pc[t] = "done" /\ bot_answer[t] = "status_error")
            => bot_ret[t] = Returned(APOLOGY)

C9_Witness ==
    \E t \in BotTasks :
        /\ bot_pc[t] = "done"
        /\ bot_answer[t] = "status_error"
        /\ bot_ret[t] = Returned(APOLOGY)

\* C10: a process_message call for which the context, the search and the
\* generation succeeded with text R and add_message failed has returned R,
\* and has not raised.
C10_FailedSaveStillReturnsText ==
    \A t \in BotTasks :
        (/\ bot_pc[t] = "done"
         /\ bot_answer[t] = "ok"
         /\ bot_generated[t] # Returned(APOLOGY)
         /\ bot_saved[t] = "failed")
            => (bot_generated[t].kind = "return" /\ bot_ret[t] = bot_generated[t])

C10_Witness ==
    \E t \in BotTasks :
        /\ bot_pc[t] = "done"
        /\ bot_answer[t] = "ok"
        /\ bot_saved[t] = "failed"
        /\ bot_generated[t] = Returned(<<"x">>)
        /\ bot_ret[t] = Returned(<<"x">>)
        /\ _history[bot_user[t]] = <<>>

\* the step of task t is the one that ends its process_message call
BotFinishes(t) == bot_pc[t] # "done" /\ bot_pc'[t] = "done"

\* C11: a process_message call made while the chatbot is initialized does not
\* raise, whichever collaborator fails: it returns the apology string, or the
\* text generate_response returned.
C11_InitializedTurnNeverRaises ==
    [][\A t \in BotTasks :
            (BotFinishes(t) /\ (bot_pc[t] = "idle" => chatbot_initialized))
                => /\ bot_ret'[t].kind = "return"
                   /\ \/ bot_ret'[t] = Returned(APOLOGY)
                      \/ /\ bot_answer'[t] = "ok"
                         /\ bot_generated'[t].kind = "return"
                         /\ bot_ret'[t] = bot_generated'[t]]_vars

C11_Witness ==
    \E t \in BotTasks, u \in BotTasks :
        /\ bot_pc[t] = "done"
        /\ bot_calls[t]["similarity_search"] = "raised"
        /\ bot_ret[t] = Returned(APOLOGY)
        /\ bot_pc[u] = "done"
        /\ bot_calls[u]["generate_response"] = "returned"
        /\ bot_ret[u] = Returned(<<"x">>)

\* C12: in every turn get_context and similarity_search are started together,
\* generate_response is called only once both have returned, and add_message
\* only once generate_response has returned.
C12_TurnOrder ==
    \A t \in BotTasks :
        LET calls == bot_calls[t]
        IN  /\ (calls["get_context"] # "none") <=> (calls["similarity_search"] # "none")
            /\ calls["generate_response"] # "none"
                => /\ calls["get_context"] = "returned"
                   /\ calls["similarity_search"] = "returned"
            /\ calls["add_message"] # "none" => calls["generate_response"] = "returned"

C12_Witness ==
    \E t \in BotTasks, u \in BotTasks :
        /\ bot_calls[t] = [c \in Collaborators |-> "returned"]
        /\ bot_pc[u] = "searching"
        /\ bot_calls[u]["get_context"] = "returned"
        /\ bot_calls[u]["generate_response"] = "none"

\* C13: a turn of an initialized chatbot for a user without history, in which
\* the search found nothing, no collaborator failed and the endpoint answered
\* with text R, returns R and leaves (message, R) as the user's last turn.
C13_EndToEndTurn ==
    [][\A t \in BotTasks :
            (/\ BotFinishes(t)
             /\ bot_pc[t] = "idle" => chatbot_initialized
             /\ _history[bot_user'[t]] = <<>>
             /\ bot_search[t] = <<>>
             /\ \A c \in Collaborators : bot_calls'[t][c] # "raised"
             /\ bot_answer'[t] \notin {"transport_error", "status_error"}
             /\ bot_saved'[t] # "failed")
                => LET turns == _history'[bot_user'[t]]
                   IN  /\ bot_ret'[t].kind = "return"
                       /\ bot_ret'[t] # Returned(APOLOGY)
                       /\ bot_ret'[t] = bot_generated'[t]
                       /\ turns # <<>>
                       /\ turns[Len(turns)].message = bot_message'[t]
                       /\ turns[Len(turns)].response = bot_ret'[t].value]_vars

\* C17: initialize() initializes the vector store before the generation
\* client, so a call that fails has created no session; a call on an
\* initialized chatbot changes nothing and returns; a call that has raised
\* leaves the generation client without a session and the chatbot rejecting
\* process_message.
C17_InitializeOrderAndFailure ==
    [][/\ (~chatbot_initialized /\ ~chatbot_initialized' /\ life_op' = "initialize")
            => \A id \in SessionIds :
                    session_state[id] = "absent" => session_state'[id] = "absent"
       /\ (chatbot_initialized /\ life_op' = "initialize")
            => /\ chatbot_initialized'
               /\ session' = session
               /\ session_state' = session_state
               /\ life_ret' = Returned(<<>>)
       /\ (life_op' = "initialize" /\ life_pc' = "idle" /\ life_ret'.kind = "raise")
            => /\ ~chatbot_initialized'
               /\ session' = NoSession
               /\ \A id \in SessionIds : session_state'[id] # "open"
               /\ process_message_guard(chatbot_initialized') = Raised("RuntimeError")]_vars

\* an initialize() failed after an earlier one had succeeded and close() had
\* closed its session, and a turn was rejected
C17_Witness ==
    /\ life_op = "initialize"
    /\ life_pc = "idle"
    /\ life_ret = Raised("Exception")
    /\ ~chatbot_initialized
    /\ \E id \in SessionIds : session_state[id] = "closed"
    /\ \E t \in BotTasks : bot_pc[t] = "done" /\ bot_ret[t] = Raised("RuntimeError")

\* C19: a process_message call made while the chatbot is not initialized raises
\* RuntimeError, calls no collaborator and leaves the history as it was.
C19_UninitializedTurnRaises ==
    [][\A t \in BotTasks :
            (bot_pc[t] = "idle" /\ bot_pc'[t] # "idle" /\ ~chatbot_initialized)
                => /\ bot_pc'[t] = "done"
                   /\ bot_ret'[t] = Raised("RuntimeError")
                   /\ bot_calls'[t] = NoCalls
                   /\ _history' = _history]_vars

\* a call rejected after a close() that followed an accepted call
C19_Witness ==
    \E t \in BotTasks, u \in BotTasks :
        /\ t < u
        /\ bot_pc[t] = "done"
        /\ bot_ret[t].kind = "return"
        /\ bot_pc[u] = "done"
        /\ bot_ret[u] = Raised("RuntimeError")
        /\ bot_calls[u] = NoCalls
        /\ life_op = "close"

(***************************************************************************)
(* Claims about AsyncSessionManager (checked under SpecSession)            *)
(***************************************************************************)
\* C16: every session of an AsyncSessionManager that is open is the one in
\* _session: there is at most one, and none is dropped from _session before
\* it is closed.
C16_OpenSessionIsCurrent ==
    \A id \in SessionIds : sm_state[id] = "open" => _session = id

\* C21: when the body of one task's async with self._get_session() raises,
\* the close() that follows leaves open the session of every other task that
\* is inside its own async with block.
C21_FailureLeavesOthersSessionOpen ==
    [][\A u \in SessionTasks :
            (sm_op[u] = "use" /\ sm_pc[u] = "closing" /\ sm_pc'[u] = "done")
                => \A t \in SessionTasks \ {u} :
                        (sm_pc[t] = "in_body" /\ sm_state[sm_sess[t]] = "open")
                            => sm_state'[sm_sess[t]] = "open"]_vars

(***************************************************************************)
(* Claims about get_context and the prompt (checked under SpecContext)     *)
(***************************************************************************)
\* C14: get_context returns, and does not raise; on an empty history it
\* returns the empty summary and no recent messages; on a history of L >= 1
\* turns its recent messages are the last min(L, 3) turns, oldest first; the
\* history stays as it was.
C14_ContextIsLastThreeTurns ==
    [][/\ ctx_history' = ctx_history
       /\ ctx_ret' # NoResult
            => LET L == Len(ctx_history)
                   k == IF L < 3 THEN L ELSE 3
                   recent == ctx_ret'.value.recent_messages
               IN  /\ ctx_ret'.kind = "return"
                   /\ L = 0 => ctx_ret'.value.summary = NoSummary
                   /\ Len(recent) = k
                   /\ \A i \in 1..k : recent[i] = ctx_history[L - k + i]]_vars

C14_Witness ==
    /\ Len(ctx_history) = MaxTurns
    /\ ctx_history[1] # ctx_history[2]
    /\ ctx_history[3] # ctx_history[4]
    /\ ctx_ret # NoResult
    /\ Len(ctx_ret.value.recent_messages) = 3
    /\ ctx_ret.value.recent_messages[1] = ctx_history[MaxTurns - 2]

\* C18: the prompt built for a context with k recent turns has 2k + 2
\* messages: a system message with the summary and the passages joined by
\* spaces, then a user and an assistant message per recent turn, oldest
\* first, then a user message with the new message.
C18_PromptShape ==
    ctx_prompt # <<>>
        => LET recent == ctx_ret.value.recent_messages
               k == Len(recent)
               n == Len(ctx_search)
               relevant == ctx_prompt[1].content.relevant
           IN  /\ Len(ctx_prompt) = 2 * k + 2
               /\ ctx_prompt[1].role = "system"
               /\ ctx_prompt[1].content.summary = ctx_ret.value.summary
               /\ Len(relevant) = IF n = 0 THEN 0 ELSE 2 * n - 1
               /\ \A i \in 1..n : relevant[2 * i - 1] = ctx_search[i]
               /\ \A i \in 1..(n - 1) : relevant[2 * i] = " "
               /\ \A i \in 1..k :
                    /\ ctx_prompt[2 * i] = [role |-> "user", content |-> recent[i].message]
                    /\ ctx_prompt[2 * i + 1] =
                            [role |-> "assistant", content |-> recent[i].response]
               /\ ctx_prompt[2 * k + 2] = [role |-> "user", content |-> ctx_message]

C18_Witness ==
    /\ Len(ctx_prompt) = 8
    /\ Len(ctx_search) = 2
    /\ ctx_prompt[2].content # ctx_prompt[4].content
    /\ ctx_prompt[8].content = ctx_message

(***************************************************************************)
(* Claims about add_message (checked under SpecHistory)                    *)
(***************************************************************************)
\* C24: whatever the order in which concurrent callers' add_message calls run,
\* each user's history is the last HISTORY_LIMIT of the turns stored for that
\* user since the last close(), in the order in which they were stored; it
\* never holds more than HISTORY_LIMIT turns; and a turn is in the history of
\* the user it was stored for and of no other.
C24_HistoryIsOwnTurnsInOrder ==
    \A u \in Users :
        LET L == Len(mgr_stored[u])
            k == IF L < HISTORY_LIMIT THEN L ELSE HISTORY_LIMIT
        IN  /\ Len(mgr_history[u]) <= HISTORY_LIMIT
            /\ Len(mgr_history[u]) = k
            /\ \A i \in 1..k : mgr_history[u][i] = mgr_stored[u][L - k + i]
            /\ \A t \in AddTasks :
                (\E i \in 1..Len(mgr_history[u]) : mgr_history[u][i] = TurnOf(t))
                    => (add_pc[t] = "stored" /\ add_user[t] = u)

\* two calls for one user pushed its history past the limit while a call for
\* the other user ran between them
C24_Witness ==
    \E u \in Users, v \in Users :
        /\ u # v
        /\ add_pc = [t \in AddTasks |-> "stored"]
        /\ add_user[1] = u /\ add_user[2] = v /\ add_user[3] = u
        /\ Len(mgr_stored[u]) = HISTORY_LIMIT + 2
        /\ Len(mgr_history[u]) = HISTORY_LIMIT
        /\ mgr_history[u][HISTORY_LIMIT] = TurnOf(3)
        /\ mgr_history[u][HISTORY_LIMIT - 1] = TurnOf(1)
        /\ mgr_history[v] = <<TurnOf(2)>>

(***************************************************************************)
(* Specifications                                                          *)
(***************************************************************************)
InitSummary == vector_store = "VectorStore" /\ BotInit /\ SettingsInit /\ SummaryInit /\ LLMInit /\ StreamInit /\ SessionInit /\ ContextFixed /\ HistoryFixed

SpecSummary == InitSummary /\ [][SummaryNext]_vars

InitLLM == vector_store = "VectorStore" /\ BotInit /\ SettingsFixed /\ SummaryInit /\ LLMInit /\ StreamInit /\ SessionInit /\ ContextFixed /\ HistoryFixed

SpecLLM == InitLLM /\ [][LLMNext]_vars

InitStream == vector_store = "VectorStore" /\ BotInit /\ SettingsFixed /\ SummaryInit /\ LLMInit /\ StreamInit /\ SessionInit /\ ContextFixed /\ HistoryFixed

SpecStream == InitStream /\ [][StreamNext]_vars

\* the chatbot as constructed, or with a retrieval client put in its place
InitBot ==
    /\ vector_store \in VectorStoreObjects
    /\ BotInit /\ SettingsFixed /\ SummaryInit /\ LLMInit /\ StreamInit
    /\ SessionInit /\ ContextFixed /\ HistoryFixed

SpecBot == InitBot /\ [][BotNext]_vars

InitSession ==
    /\ vector_store = "VectorStore"
    /\ BotInit /\ SettingsFixed /\ SummaryInit /\ LLMInit /\ StreamInit
    /\ SessionInit /\ ContextFixed /\ HistoryFixed

SpecSession == InitSession /\ [][SessionNext]_vars

InitContext ==
    /\ vector_store = "VectorStore"
    /\ BotInit /\ SettingsFixed /\ SummaryInit /\ LLMInit /\ StreamInit
    /\ SessionInit /\ ContextInit /\ HistoryFixed

SpecContext == InitContext /\ [][ContextNext]_vars

InitHistory ==
    /\ vector_store = "VectorStore"
    /\ BotInit /\ SettingsFixed /\ SummaryInit /\ LLMInit /\ StreamInit
    /\ SessionInit /\ ContextFixed /\ HistoryInit

SpecHistory == InitHistory /\ [][HistoryNext]_vars

====
